---- MODULE Spec2Model ----
(***************************************************************************)
(* Model of urbanHeat_tools.py: the folder bookkeeping, the renaming of    *)
(* downloaded rasters and the wrappers around the external GIS toolbox.    *)
(*                                                                         *)
(* A file or folder name is a sequence of atoms.  The atoms "_", "." and   *)
(* "/" are the characters the code splits and joins on; every other atom  *)
(* is a run of characters that contains none of the three.                 *)
(***************************************************************************)
EXTENDS Integers, Sequences, FiniteSets, TLC

VARIABLES
    stage,     \* the stage of the script that is uncommented in this run
    dirs,      \* the directories that exist (paths)
    files,     \* the input folder of rename_rasters: name -> identity of the file
    others,    \* the files outside that folder: path -> identity
    platform,  \* "posix" or "nt": decides what os.rename does when the target exists
    pc,        \* "idle", "running", "returned" or "raised"
    fn,        \* the function being run (or last run)
    args,      \* its arguments, with the directory listing it obtained
    i,         \* index of the outer loop (1-based)
    j,         \* index of the inner loop of apply_focal_statistics
    runs,      \* how many times create_file_structure has returned
    printed,   \* the lines printed by the current invocation
    calls,     \* the calls made to the external toolbox by the current invocation
    written,   \* the outputs the toolbox has written in the current invocation
    acc,       \* inRasterList of extract_values
    seen       \* history: one output path computed by some earlier step

vars == <<stage, dirs, files, others, platform, pc, fn, args, i, j, runs, printed, calls,
          written, acc, seen>>

----------------------------------------------------------------------------
(* Bounds of the model *)

MaxRuns == 2
MaxFiles == 2
MaxRasters == 2
MaxRadii == 2

----------------------------------------------------------------------------
(* Strings as sequences of atoms *)

Sep == "/"

RECURSIVE SplitOn(_, _)
\* str.split(sep)
SplitOn(s, sep) ==
    IF \A k \in 1..Len(s) : s[k] # sep
    THEN <<s>>
    ELSE LET k == CHOOSE x \in 1..Len(s) :
                      s[x] = sep /\ \A y \in 1..(x - 1) : s[y] # sep
         IN  <<SubSeq(s, 1, k - 1)>> \o SplitOn(SubSeq(s, k + 1, Len(s)), sep)

\* os.path.splitext of a bare file name: the extension starts at the last dot,
\* unless only dots precede it
Splitext(p) ==
    LET dots == {k \in 1..Len(p) : p[k] = "."}
    IN  IF dots = {} THEN <<p, <<>>>>
        ELSE LET d == CHOOSE k \in dots : \A m \in dots : m <= k
             IN  IF \E m \in 1..(d - 1) : p[m] # "."
                 THEN <<SubSeq(p, 1, d - 1), SubSeq(p, d, Len(p))>>
                 ELSE <<p, <<>>>>

\* os.path.join of two components
PathJoin(a, b) ==
    IF b # <<>> /\ b[1] = Sep THEN b
    ELSE IF a = <<>> \/ a[Len(a)] = Sep THEN a \o b
    ELSE a \o <<Sep>> \o b

Digit(d) ==
    CASE d = 0 -> "0" [] d = 1 -> "1" [] d = 2 -> "2" [] d = 3 -> "3" [] d = 4 -> "4"
      [] d = 5 -> "5" [] d = 6 -> "6" [] d = 7 -> "7" [] d = 8 -> "8" [] d = 9 -> "9"

RECURSIVE Str(_)
\* str(n) of a natural number, as the f-string formats it
Str(n) == IF n < 10 THEN <<Digit(n)>> ELSE Str(n \div 10) \o <<Digit(n % 10)>>

\* the sequences without repetition over S of length at most n
RECURSIVE Listings(_, _)
Listings(S, n) ==
    IF n = 0 \/ S = {} THEN {<<>>}
    ELSE {<<>>} \cup UNION {{<<x>> \o l : l \in Listings(S \ {x}, n - 1)} : x \in S}

\* the orders in which a directory listing can return the set S
Orders(S) == {l \in Listings(S, Cardinality(S)) : Len(l) = Cardinality(S)}

Range(s) == {s[k] : k \in 1..Len(s)}

----------------------------------------------------------------------------
(* create_file_structure *)

ProjectDir == <<"Project">>

folders ==
    <<"sentinel_rasters", "CAPA_transects", "CAPA_rasters", "focal_rasters",
      "resampled_rasters", "shapefiles", "fishnet">>

FolderPath(f) == PathJoin(ProjectDir, <<f>>)

ProjectFolders == {FolderPath(folders[k]) : k \in 1..Len(folders)}

\* a directory of the project that the script does not know about
Unrelated == PathJoin(ProjectDir, <<"notes">>)

NoArgs == [none |-> TRUE]

\* the script is between two statements; an exception that leaves a function
\* ends the script
Callable == pc = "idle"

\* the function has returned and the script goes on to its next statement: the
\* locals of the call are gone, the disk stays
Proceed ==
    /\ pc = "returned"
    /\ pc' = "idle"
    /\ fn' = "none"
    /\ args' = NoArgs
    /\ i' = 1
    /\ j' = 1
    /\ printed' = <<>>
    /\ calls' = <<>>
    /\ written' = {}
    /\ acc' = <<>>
    /\ UNCHANGED <<stage, dirs, files, others, platform, runs, seen>>

CallCreateFileStructure ==
    /\ stage = "structure"
    /\ Callable
    /\ runs < MaxRuns
    /\ pc' = "running"
    /\ fn' = "create_file_structure"
    /\ args' = NoArgs
    /\ i' = 1
    /\ printed' = <<>>
    /\ UNCHANGED <<stage, dirs, files, others, platform, j, runs, calls, written, acc, seen>>

\* the loop body without the existence test: os.makedirs raises when the
\* directory is there
CreateFolderUnguarded ==
    /\ pc = "running" /\ fn = "create_file_structure"
    /\ i <= Len(folders)
    /\ IF FolderPath(folders[i]) \notin dirs
       THEN /\ dirs' = dirs \cup {FolderPath(folders[i])}
            /\ printed' = Append(printed, <<"Created new directory", folders[i]>>)
            /\ i' = i + 1
            /\ pc' = pc
       ELSE /\ pc' = "raised"
            /\ UNCHANGED <<dirs, printed, i>>
    /\ UNCHANGED <<stage, files, others, platform, fn, args, j, runs, calls, written, acc, seen>>

\* one iteration of the loop over folders
CreateFolderStep ==
    /\ pc = "running" /\ fn = "create_file_structure"
    /\ i <= Len(folders)
    /\ IF FolderPath(folders[i]) \notin dirs
       THEN /\ dirs' = dirs \cup {FolderPath(folders[i])}
            /\ printed' = Append(printed, <<"Created new directory", folders[i]>>)
       ELSE /\ dirs' = dirs
            /\ printed' = Append(printed, <<"already exists", folders[i]>>)
    /\ i' = i + 1
    /\ UNCHANGED <<stage, files, others, platform, pc, fn, args, j, runs, calls, written, acc, seen>>

ReturnCreateFileStructure ==
    /\ pc = "running" /\ fn = "create_file_structure"
    /\ i > Len(folders)
    /\ pc' = "returned"
    /\ runs' = runs + 1
    /\ UNCHANGED <<stage, dirs, files, others, platform, fn, args, i, j, printed, calls,
                   written, acc, seen>>

----------------------------------------------------------------------------
(* rename_rasters *)

RECURSIVE JoinTokens(_)
\* "_".join(tokens)
JoinTokens(toks) ==
    IF Len(toks) = 0 THEN <<>>
    ELSE IF Len(toks) = 1 THEN toks[1]
    ELSE toks[1] \o <<"_">> \o JoinTokens(Tail(toks))

\* the atoms whose characters begin with 'Sentinel'
SentinelAtoms == {"Sentinel", "Sentinel-1", "Sentinel-2"}

\* token.startswith('Sentinel')
StartsWithSentinel(token) == Len(token) >= 1 /\ token[1] \in SentinelAtoms

Tiff == <<".", "tiff">>

\* the names a file of the input folder can have before the call
FileNames ==
    { JoinTokens(<<<<"d22">>, <<"00">>, <<"d22">>, <<"59">>, <<"Sentinel-2">>, <<"L2A">>,
                   <<"B04">>, <<"(Raw)">>>>) \o Tiff,
      JoinTokens(<<<<"d23">>, <<"00">>, <<"d23">>, <<"59">>, <<"Sentinel-2">>, <<"L2A">>,
                   <<"B04">>, <<"(Raw)">>>>) \o Tiff,
      JoinTokens(<<<<"Sentinel-2">>, <<"L2A">>, <<"B04">>>>) \o Tiff,
      JoinTokens(<<<<"d22">>, <<"00">>, <<"d22">>, <<"59">>, <<"Sentinel-2">>>>) \o Tiff,
      JoinTokens(<<<<"d22">>, <<"00">>, <<"d22">>, <<"59">>, <<"Sentinel-2">>, <<"L2A">>>>)
          \o Tiff,
      JoinTokens(<<<<"d22">>, <<"00">>, <<"d22">>, <<"59">>, <<"Sentinel-2">>, <<"L2A">>,
                   <<"B08">>>>) \o Tiff,
      JoinTokens(<<<<"d22">>, <<"00">>, <<"d22">>, <<"59">>, <<"Landsat-8">>, <<"L2">>,
                   <<"B4">>, <<"(Raw)">>>>) \o Tiff,
      <<"readme", ".", "txt">> }

\* files is a set of <<name, identity>> with no name twice
Names(fs) == {f[1] : f \in fs}

RawRasterFolder == FolderPath("sentinel_rasters")

\* a file of another folder of the project
OutsideFiles == {<<PathJoin(FolderPath("CAPA_transects"), <<"am", "_", "trav", ".", "shp">>),
                  "am_trav">>}

\* new_file without the extension
NewFileNoExt(file) ==
    LET parts == SplitOn(file, "_")
    IN  JoinTokens(<<parts[5], parts[6], parts[7]>>)

\* new_file of the loop body; parts[5..7] are the tokens at indices 4, 5, 6
NewFile(file) ==
    LET parts == SplitOn(file, "_")
    IN  JoinTokens(<<parts[5], parts[6], parts[7]>>) \o Splitext(file)[2]

\* what the try block does with one file: "skip" (the else branch), "index"
\* (IndexError), "exists" (os.rename raises), "missing" (os.rename raises) or
\* "rename"
Outcome(file) ==
    LET parts == SplitOn(file, "_")
    IN  IF Len(parts) < 5 THEN "index"
        ELSE IF ~StartsWithSentinel(parts[5]) THEN "skip"
        ELSE IF Len(parts) < 7 THEN "index"
        ELSE IF file \notin Names(files) THEN "missing"
        ELSE IF /\ NewFile(file) \in Names(files)
                /\ NewFile(file) # file
                /\ platform = "nt" THEN "exists"
        ELSE "rename"

\* os.rename inside the folder: the target, if there, is replaced
OsRename(fs, src, dst) ==
    {f \in fs : f[1] \notin {src, dst}}
        \cup {<<dst, f[2]>> : f \in {g \in fs : g[1] = src}}

CallRenameRasters ==
    /\ stage = "rename"
    /\ pc = "idle"
    /\ \E listing \in Orders(Names(files)) :
          args' = [input_folder |-> RawRasterFolder, listing |-> listing]
    /\ pc' = "running"
    /\ fn' = "rename_rasters"
    /\ i' = 1
    /\ printed' = <<>>
    /\ UNCHANGED <<stage, dirs, files, others, platform, j, runs, calls, written, acc, seen>>

\* the loop body without the try: the exception leaves the function
RenameStepUncaught ==
    /\ pc = "running" /\ fn = "rename_rasters"
    /\ i <= Len(args.listing)
    /\ LET file == args.listing[i]
           out == Outcome(file)
       IN  /\ files' = IF out = "rename" THEN OsRename(files, file, NewFile(file))
                       ELSE files
           /\ printed' = IF out = "rename"
                         THEN Append(printed, <<"Renamed", file, NewFile(file)>>)
                         ELSE printed
           /\ pc' = IF out \in {"rename", "skip"} THEN pc ELSE "raised"
           /\ i' = IF out \in {"rename", "skip"} THEN i + 1 ELSE i
    /\ UNCHANGED <<stage, dirs, others, platform, fn, args, j, runs, calls, written, acc, seen>>

\* one iteration of the loop over os.listdir(input_folder)
RenameStep ==
    /\ pc = "running" /\ fn = "rename_rasters"
    /\ i <= Len(args.listing)
    /\ LET file == args.listing[i]
           out == Outcome(file)
       IN  /\ files' = IF out = "rename" THEN OsRename(files, file, NewFile(file))
                       ELSE files
           /\ printed' = IF out = "rename"
                         THEN Append(printed, <<"Renamed", file, NewFile(file)>>)
                         ELSE IF out = "skip" THEN printed
                         ELSE Append(printed, <<"not renamed", file>>)
    /\ i' = i + 1
    /\ UNCHANGED <<stage, dirs, others, platform, pc, fn, args, j, runs, calls, written,
                   acc, seen>>

ReturnRenameRasters ==
    /\ pc = "running" /\ fn = "rename_rasters"
    /\ i > Len(args.listing)
    /\ pc' = "returned"
    /\ UNCHANGED <<stage, dirs, files, others, platform, fn, args, i, j, runs, printed,
                   calls, written, acc, seen>>

----------------------------------------------------------------------------
(* The wrappers around the external toolbox *)

Tif == <<".", "tif">>

RadiusValues == {10, 15}

\* the raster names arcpy.ListRasters() can return
RasterNames ==
    { JoinTokens(<<<<"focal">>, Str(10), <<"resampled">>, <<"Sentinel-2">>, <<"L2A">>,
                   <<"B04">>>>) \o Tif,
      JoinTokens(<<<<"focal">>, Str(10), <<"resampled">>, <<"Sentinel-2">>, <<"L1C">>,
                   <<"B04">>>>) \o Tif,
      JoinTokens(<<<<"focal">>, Str(15), <<"resampled">>, <<"Sentinel-2">>, <<"L2A">>,
                   <<"B08">>>>) \o Tif,
      <<"dem">> \o Tif }

\* an output folder of the project, and one that create_file_structure does not make
OutFolders == {FolderPath("focal_rasters"), PathJoin(ProjectDir, <<"TEST">>)}

CellSizes == {<<"10">>, <<"10", " ", "10">>}

ResamplingTypes == {"NEAREST", "BILINEAR"}

StatisticTypes == {"MEAN"}

RadiusLists == UNION {[1..n -> RadiusValues] : n \in 0..MaxRadii}

\* if not os.path.exists(output_folder): os.makedirs(output_folder)
EnsureFolder(folder) == dirs \cup {folder}

\* output_raster of apply_resampling, numbered by the position in the listing
ResampledPathNumbered(output_folder, raster) ==
    PathJoin(output_folder,
             <<"resampled", "_">> \o Str(i) \o <<"_">> \o Splitext(raster)[1] \o Tif)

\* output_raster of apply_resampling
ResampledPath(output_folder, raster) ==
    PathJoin(output_folder, <<"resampled", "_">> \o Splitext(raster)[1] \o Tif)

\* output_raster of apply_focal_statistics
FocalPath(output_folder, rad, raster) ==
    PathJoin(output_folder,
             <<"focal", "_">> \o Str(rad) \o <<"_">> \o Splitext(raster)[1] \o Tif)

CallApplyResampling ==
    /\ stage = "toolbox"
    /\ Callable
    /\ \E rasters \in Listings(RasterNames, MaxRasters), output_folder \in OutFolders,
          cellsize \in CellSizes, resampling_type \in ResamplingTypes, listed \in BOOLEAN :
          /\ args' = [rasters |-> rasters, output_folder |-> output_folder,
                      cellsize |-> cellsize, resampling_type |-> resampling_type]
          /\ calls' = <<[op |-> "ListRasters", ok |-> listed]>>
          /\ pc' = IF listed THEN "running" ELSE "raised"
          /\ dirs' = IF listed THEN EnsureFolder(output_folder) ELSE dirs
    /\ fn' = "apply_resampling"
    /\ i' = 1
    /\ j' = 1
    /\ printed' = <<>>
    /\ written' = {}
    /\ acc' = <<>>
    /\ UNCHANGED <<stage, files, others, platform, runs, seen>>

\* the loop body stepping over the raster that follows the one it processed
ResampleStepSkipping ==
    /\ pc = "running" /\ fn = "apply_resampling"
    /\ i <= Len(args.rasters)
    /\ LET raster == args.rasters[i]
           output_raster == ResampledPath(args.output_folder, raster)
       IN  \E ok \in BOOLEAN :
              /\ calls' = Append(calls, [op |-> "Resample", in_raster |-> raster,
                                         out |-> output_raster,
                                         cell_size |-> args.cellsize,
                                         resampling_type |-> "NEAREST", ok |-> ok])
              /\ written' = IF ok THEN written \cup {output_raster} ELSE written
              /\ printed' = IF ok THEN Append(printed, <<"Processed", raster>>)
                            ELSE printed
              /\ i' = IF ok THEN i + 2 ELSE i
              /\ pc' = IF ok THEN pc ELSE "raised"
    /\ UNCHANGED <<stage, dirs, files, others, platform, fn, args, j, runs, acc, seen>>

\* one iteration of the loop over rasters: one Resample_management call
ResampleStep ==
    /\ pc = "running" /\ fn = "apply_resampling"
    /\ i <= Len(args.rasters)
    /\ LET raster == args.rasters[i]
           output_raster == ResampledPath(args.output_folder, raster)
       IN  \E ok \in BOOLEAN :
              /\ calls' = Append(calls, [op |-> "Resample", in_raster |-> raster,
                                         out |-> output_raster,
                                         cell_size |-> args.cellsize,
                                         resampling_type |-> "NEAREST", ok |-> ok])
              /\ written' = IF ok THEN written \cup {output_raster} ELSE written
              /\ printed' = IF ok THEN Append(printed, <<"Processed", raster>>)
                            ELSE printed
              /\ i' = IF ok THEN i + 1 ELSE i
              /\ pc' = IF ok THEN pc ELSE "raised"
    /\ UNCHANGED <<stage, dirs, files, others, platform, fn, args, j, runs, acc, seen>>

ReturnApplyResampling ==
    /\ pc = "running" /\ fn = "apply_resampling"
    /\ i > Len(args.rasters)
    /\ pc' = "returned"
    /\ UNCHANGED <<stage, dirs, files, others, platform, fn, args, i, j, runs, printed,
                   calls, written, acc, seen>>

CallApplyFocalStatistics ==
    /\ stage = "toolbox"
    /\ Callable
    /\ \E rasters \in Listings(RasterNames, MaxRasters), output_folder \in OutFolders,
          radius \in RadiusLists, statistic_type \in StatisticTypes, listed \in BOOLEAN :
          /\ args' = [rasters |-> rasters, output_folder |-> output_folder,
                      radius |-> radius, statistic_type |-> statistic_type]
          /\ calls' = <<[op |-> "ListRasters", ok |-> listed]>>
          /\ pc' = IF listed THEN "running" ELSE "raised"
          /\ dirs' = IF listed THEN EnsureFolder(output_folder) ELSE dirs
          \* with no radius the inner loop is empty for every raster
          /\ i' = IF listed /\ radius = <<>> THEN Len(rasters) + 1 ELSE 1
    /\ fn' = "apply_focal_statistics"
    /\ j' = 1
    /\ printed' = <<>>
    /\ written' = {}
    /\ acc' = <<>>
    /\ UNCHANGED <<stage, files, others, platform, runs, seen>>

\* one iteration of the inner loop: FocalStatistics for one raster and one
\* radius, then the save of its result
FocalStep ==
    /\ pc = "running" /\ fn = "apply_focal_statistics"
    /\ i <= Len(args.rasters)
    /\ \E result \in {"ok", "focal failed", "save failed"} :
       LET raster == args.rasters[i]
           rad == args.radius[j]
           output_raster == FocalPath(args.output_folder, rad, raster)
           focal == [op |-> "FocalStatistics", in_raster |-> raster, rad |-> rad,
                     units |-> "CELL", statistics_type |-> args.statistic_type,
                     ok |-> result # "focal failed"]
           save == [op |-> "save", in_raster |-> raster, rad |-> rad,
                    out |-> output_raster, ok |-> result = "ok"]
       IN  /\ calls' = IF result = "focal failed"
                       THEN Append(calls, focal)
                       ELSE calls \o <<focal, save>>
           /\ written' = IF result = "ok" THEN written \cup {output_raster}
                         ELSE written
           /\ printed' = IF result = "ok"
                         THEN Append(printed, <<"Processed", raster, rad>>)
                         ELSE printed
           /\ pc' = IF result = "ok" THEN pc ELSE "raised"
           /\ i' = IF result = "ok" /\ j = Len(args.radius) THEN i + 1 ELSE i
           /\ j' = IF result # "ok" THEN j
                   ELSE IF j = Len(args.radius) THEN 1 ELSE j + 1
    /\ UNCHANGED <<stage, dirs, files, others, platform, fn, args, runs, acc, seen>>

ReturnApplyFocalStatistics ==
    /\ pc = "running" /\ fn = "apply_focal_statistics"
    /\ i > Len(args.rasters)
    /\ pc' = "returned"
    /\ UNCHANGED <<stage, dirs, files, others, platform, fn, args, i, j, runs, printed,
                   calls, written, acc, seen>>

RasterProperties == <<"LEFT", "BOTTOM", "RIGHT", "TOP", "COLUMNCOUNT", "ROWCOUNT">>

CapaRasters == {PathJoin(FolderPath("CAPA_rasters"), <<"am", "_", "t", "_", "f">> \o Tif)}

FishnetNames == {<<"Fishnet">>, <<"Fishnet", "_", "am">>}

\* out_feature_class of create_fishnet
FishnetPath(output_folder, output_name) == PathJoin(output_folder, <<"output_name">>)

CallCreateFishnet ==
    /\ stage = "toolbox"
    /\ Callable
    /\ \E input_raster \in CapaRasters, output_folder \in OutFolders,
          output_name \in FishnetNames :
          /\ args' = [input_raster |-> input_raster, output_folder |-> output_folder,
                      output_name |-> output_name]
          /\ dirs' = EnsureFolder(output_folder)
    /\ pc' = "running"
    /\ fn' = "create_fishnet"
    /\ i' = 1
    /\ j' = 1
    /\ printed' = <<>>
    /\ calls' = <<>>
    /\ written' = {}
    /\ acc' = <<>>
    /\ UNCHANGED <<stage, files, others, platform, runs, seen>>

\* one of the six GetRasterProperties_management calls
FishnetPropertyStep ==
    /\ pc = "running" /\ fn = "create_fishnet"
    /\ i <= Len(RasterProperties)
    /\ \E ok \in BOOLEAN :
          /\ calls' = Append(calls, [op |-> "GetRasterProperties",
                                     in_raster |-> args.input_raster,
                                     property |-> RasterProperties[i], ok |-> ok])
          /\ pc' = IF ok THEN pc ELSE "raised"
          /\ i' = IF ok THEN i + 1 ELSE i
    /\ UNCHANGED <<stage, dirs, files, others, platform, fn, args, j, runs, printed,
                   written, acc, seen>>

\* the CreateFishnet call; int() of the bottom coordinate raises ValueError
\* before it when the toolbox reported a coordinate that is no integer
FishnetCreateStep ==
    /\ pc = "running" /\ fn = "create_fishnet"
    /\ i > Len(RasterProperties)
    /\ \E result \in {"ok", "bottom is no integer", "fishnet failed"} :
       LET out == FishnetPath(args.output_folder, args.output_name)
           create == [op |-> "CreateFishnet", out |-> out, labels |-> "LABELS",
                      geometry_type |-> "POLYLINE", ok |-> result = "ok"]
       IN
              /\ calls' = IF result = "bottom is no integer" THEN calls
                          ELSE Append(calls, create)
              /\ written' = IF result = "ok" THEN written \cup {out} ELSE written
              /\ printed' = IF result = "ok"
                            THEN Append(printed, <<"Processed", args.input_raster,
                                                   args.output_name>>)
                            ELSE printed
              /\ pc' = IF result = "ok" THEN "returned" ELSE "raised"
    /\ UNCHANGED <<stage, dirs, files, others, platform, fn, args, i, j, runs, acc, seen>>

PointFiles == {PathJoin(FolderPath("CAPA_transects"), <<"am", "_", "trav", ".", "shp">>)}

OutputFiles == {<<"am", "_", "output", ".", "shp">>, <<"af", "_", "output", ".", "shp">>}

\* output of extract_values
ExtractPath(output_folder, output_file) == PathJoin(output_folder, output_file)

\* new_fieldname of extract_values; nameparts[-1] is the last token
NewFieldName(raster) ==
    LET name == SplitOn(raster, ".")[1]
        nameparts == SplitOn(name, "_")
    IN  nameparts[Len(nameparts)] \o <<"_">> \o nameparts[2] \o <<"0m">>

\* nameparts[1] raises IndexError when the name has no "_"
FieldNameRaises(raster) == Len(SplitOn(SplitOn(raster, ".")[1], "_")) < 2

CallExtractValues ==
    /\ stage = "toolbox"
    /\ Callable
    /\ \E in_points_file \in PointFiles, rasters \in Listings(RasterNames, MaxRasters),
          output_folder \in OutFolders, output_file \in OutputFiles,
          result \in {"ok", "copy failed", "list failed"} :
          LET output == ExtractPath(output_folder, output_file)
              copy == [op |-> "CopyFeatures", in_features |-> in_points_file,
                       out |-> output, ok |-> result # "copy failed"]
          IN  /\ args' = [in_points_file |-> in_points_file, rasters |-> rasters,
                          output_folder |-> output_folder, output_file |-> output_file]
              /\ dirs' = EnsureFolder(output_folder)
              /\ calls' = IF result = "copy failed" THEN <<copy>>
                          ELSE <<copy, [op |-> "ListRasters", ok |-> result = "ok"]>>
              /\ written' = IF result = "copy failed" THEN {} ELSE {output}
              /\ pc' = IF result = "ok" THEN "running" ELSE "raised"
    /\ fn' = "extract_values"
    /\ i' = 1
    /\ j' = 1
    /\ printed' = <<>>
    /\ acc' = <<>>
    /\ UNCHANGED <<stage, files, others, platform, runs, seen>>

\* one iteration of the loop that builds inRasterList
ExtractFieldStep ==
    /\ pc = "running" /\ fn = "extract_values"
    /\ i <= Len(args.rasters)
    /\ LET raster == args.rasters[i]
       IN  IF FieldNameRaises(raster)
           THEN /\ pc' = "raised"
                /\ UNCHANGED <<acc, i>>
           ELSE /\ acc' = Append(acc, <<raster, NewFieldName(raster)>>)
                /\ i' = i + 1
                /\ pc' = pc
    /\ UNCHANGED <<stage, dirs, files, others, platform, fn, args, j, runs, printed,
                   calls, written, seen>>

\* the single ExtractMultiValuesToPoints call, after the loop
ExtractCallStep ==
    /\ pc = "running" /\ fn = "extract_values"
    /\ i > Len(args.rasters)
    /\ \E ok \in BOOLEAN :
          /\ calls' = Append(calls, [op |-> "ExtractMultiValuesToPoints",
                                     in_point_features |->
                                         ExtractPath(args.output_folder, args.output_file),
                                     in_rasters |-> acc,
                                     bilinear_interpolate_values |-> "NONE", ok |-> ok])
          /\ pc' = IF ok THEN "returned" ELSE "raised"
          /\ printed' = IF ok THEN Append(printed, <<"Processed", Len(acc)>>)
                        ELSE printed
    /\ UNCHANGED <<stage, dirs, files, others, platform, fn, args, i, j, runs, written,
                   acc, seen>>

----------------------------------------------------------------------------
(* History: one output path of an earlier step, kept to compare two runs *)

NoSeen == [none |-> TRUE]

HasPath(c) == c.op \in {"Resample", "save", "CopyFeatures"}

\* what an output path is computed from
PathKey(c) ==
    CASE c.op = "Resample" -> <<"apply_resampling", c.in_raster, args.output_folder>>
      [] c.op = "save" -> <<"apply_focal_statistics", c.in_raster, args.output_folder,
                            c.rad>>
      [] c.op = "CopyFeatures" -> <<"extract_values", args.output_folder,
                                    args.output_file>>

\* looks at one output path of the call that has just returned
Observe ==
    /\ stage = "toolbox"
    /\ pc = "returned"
    /\ \E k \in 1..Len(calls) :
          /\ HasPath(calls[k])
          /\ seen' = [key |-> PathKey(calls[k]), out |-> calls[k].out]
    /\ seen' # seen
    /\ UNCHANGED <<stage, dirs, files, others, platform, pc, fn, args, i, j, runs,
                   printed, calls, written, acc>>

----------------------------------------------------------------------------
(* The script: one of its stages is uncommented in a run *)

Init ==
    /\ stage \in {"structure", "rename", "toolbox"}
    /\ dirs \in IF stage = "structure" THEN SUBSET (ProjectFolders \cup {Unrelated})
                ELSE {ProjectFolders}
    /\ files \in IF stage = "rename"
                 THEN {{<<n, n>> : n \in S} :
                          S \in {T \in SUBSET FileNames : Cardinality(T) <= MaxFiles}}
                 ELSE {{}}
    /\ others = OutsideFiles
    /\ platform \in IF stage = "rename" THEN {"posix", "nt"} ELSE {"posix"}
    /\ pc = "idle"
    /\ fn = "none"
    /\ args = NoArgs
    /\ i = 1
    /\ j = 1
    /\ runs = 0
    /\ printed = <<>>
    /\ calls = <<>>
    /\ written = {}
    /\ acc = <<>>
    /\ seen = NoSeen

Next ==
    \/ CallCreateFileStructure
    \/ CreateFolderStep
    \/ ReturnCreateFileStructure
    \/ CallRenameRasters
    \/ RenameStep
    \/ ReturnRenameRasters
    \/ CallApplyResampling
    \/ ResampleStep
    \/ ReturnApplyResampling
    \/ CallApplyFocalStatistics
    \/ FocalStep
    \/ ReturnApplyFocalStatistics
    \/ CallCreateFishnet
    \/ FishnetPropertyStep
    \/ FishnetCreateStep
    \/ CallExtractValues
    \/ ExtractFieldStep
    \/ ExtractCallStep
    \/ Observe
    \/ Proceed

Spec == Init /\ [][Next]_vars

----------------------------------------------------------------------------
(* Properties *)

InStructure == stage = "structure"
InRename == stage = "rename" /\ fn = "rename_rasters"
InToolbox == stage = "toolbox" /\ fn # "none"

Tokens(file) == SplitOn(file, "_")

\* the file is one rename_rasters means to rename
Matching(file) == Len(Tokens(file)) >= 5 /\ StartsWithSentinel(Tokens(file)[5])

\* the calls of one toolbox operation, in the order they were made
CallsOf(op) == SelectSeq(calls, LAMBDA c : c.op = op)

\* the name without its last two atoms: the stem of a name that ends in ".tif"
Stem(raster) == SubSeq(raster, 1, Len(raster) - 2)

(* C1: create_file_structure is idempotent: from every initial subset of the
   seven folders, a run never raises and returns with all seven folders
   present, each once, and a second run creates nothing: it finds every
   folder there. *)
C1_Idempotent ==
    InStructure =>
        /\ pc # "raised"
        /\ (pc = "returned" => /\ dirs \cap ProjectFolders = ProjectFolders
                               /\ Cardinality(dirs \cap ProjectFolders) = Len(folders))
        /\ (runs >= 1 => ProjectFolders \subseteq dirs)
        /\ ((runs >= 1 /\ pc = "running") \/ (runs >= 2 /\ pc = "returned")
                => \A k \in 1..Len(printed) : printed[k][1] = "already exists")

C1_Witness ==
    /\ InStructure /\ runs = 2 /\ pc = "returned"
    /\ Len(printed) = Len(folders)
    /\ \A k \in 1..Len(printed) : printed[k][1] = "already exists"

(* C2 as stated: after the call, every file of the folder with five or more
   tokens whose token at index 4 starts with 'Sentinel' is gone under its old
   name. *)
C2_Original ==
    (InRename /\ pc = "returned") =>
        \A k \in 1..Len(args.listing) :
            Matching(args.listing[k]) => args.listing[k] \notin Names(files)

(* C2 amended: a file with seven or more tokens whose token at index 4 starts
   with 'Sentinel' is renamed to tokens 4, 5, 6 joined by '_' followed by the
   extension of the file: right after its iteration a file exists under that
   name, and the old name is gone unless os.rename raised because the target
   was there on a platform that refuses to replace it.  With five or six
   tokens the file is logged as not renamed and keeps its name. *)
C2_RenamesSevenTokens ==
    (InRename /\ i > 1) =>
        LET file == args.listing[i - 1]
            parts == Tokens(file)
            ext == Splitext(file)[2]
            last == printed[Len(printed)]
        IN  Matching(file) =>
                IF Len(parts) >= 7
                THEN LET new == parts[5] \o <<"_">> \o parts[6] \o <<"_">> \o parts[7] \o ext
                     IN  /\ new \in Names(files)
                         /\ \/ /\ last = <<"Renamed", file, new>>
                               /\ file \notin Names(files)
                            \/ /\ last = <<"not renamed", file>>
                               /\ file \in Names(files)
                               /\ platform = "nt"
                ELSE /\ last = <<"not renamed", file>>
                     /\ file \in Names(files)

C2_Witness ==
    /\ InRename /\ pc = "returned"
    /\ \E k \in 1..Len(printed) :
          /\ printed[k][1] = "Renamed"
          /\ Len(Tokens(printed[k][2])) >= 7
          /\ printed[k][3] \in Names(files)
    /\ \E k \in 1..Len(printed) :
          /\ printed[k][1] = "not renamed"
          /\ Matching(printed[k][2])
          /\ Len(Tokens(printed[k][2])) < 7

(* C3: every file of the folder that does not match (fewer than five tokens,
   or a token at index 4 that does not start with 'Sentinel') is the same file
   under the same name after the call, and no file outside the folder is
   touched. *)
C3_NonMatchingUntouched ==
    InRename =>
        /\ \A k \in 1..Len(args.listing) :
              ~Matching(args.listing[k]) =>
                  <<args.listing[k], args.listing[k]>> \in files
        /\ others = OutsideFiles

(* C4: a failure in rename_rasters is logged and the loop goes on: the call
   never raises, it returns after the last file of the listing, and every
   file it logged as not renamed still has its name; every file is renamed,
   logged as not renamed or left alone by the else branch.  In the toolbox
   wrappers a failed toolbox call is the last call made and leaves the
   function as an exception, and the outputs written before it stay. *)
C4_FailureHandling ==
    /\ InRename =>
          /\ pc # "raised"
          /\ (pc = "returned" => i = Len(args.listing) + 1)
          /\ \A k \in 1..Len(printed) :
                printed[k][1] = "not renamed" => printed[k][2] \in Names(files)
          /\ \A k \in 1..(i - 1) :
                LET file == args.listing[k]
                IN  \/ \E m \in 1..Len(printed) :
                          printed[m][1] \in {"Renamed", "not renamed"} /\ printed[m][2] = file
                    \/ (Len(Tokens(file)) >= 5 /\ ~StartsWithSentinel(Tokens(file)[5]))
          /\ \A k \in 1..(i - 1) :
                LET file == args.listing[k]
                IN  (Len(Tokens(file)) < 5 \/ (Matching(file) /\ Len(Tokens(file)) < 7))
                        => \E m \in 1..Len(printed) : printed[m] = <<"not renamed", file>>
    /\ InToolbox =>
          /\ \A k \in 1..Len(calls) :
                ~calls[k].ok => (k = Len(calls) /\ pc = "raised")
          /\ written = {calls[k].out : k \in {m \in 1..Len(calls) :
                                                HasPath(calls[m]) /\ calls[m].ok}}
                       \cup {c.out : c \in {d \in Range(calls) :
                                              d.op = "CreateFishnet" /\ d.ok}}

C4_Witness ==
    /\ InRename /\ pc = "returned"
    /\ Len(args.listing) = 2
    /\ Len(printed) = 2
    /\ printed[1][1] = "not renamed"
    /\ printed[2][1] = "Renamed"

(* C5 as stated: apply_resampling, apply_focal_statistics and extract_values
   each make as many raster calls to the toolbox as the listing has files
   (for a listing that is not empty, and a radius list that is not empty). *)
C5_Original ==
    (InToolbox /\ pc = "returned" /\ fn # "create_fishnet" /\ Len(args.rasters) >= 1
        /\ (fn = "apply_focal_statistics" => Len(args.radius) >= 1)) =>
        Len(CallsOf(CASE fn = "apply_resampling" -> "Resample"
                      [] fn = "apply_focal_statistics" -> "FocalStatistics"
                      [] fn = "extract_values" -> "ExtractMultiValuesToPoints"))
            = Len(args.rasters)

(* C5 amended: apply_resampling makes one Resample call per listed raster, in
   listing order; apply_focal_statistics makes one FocalStatistics call and
   one save per pair of raster and radius, the radii in turn for each raster
   in listing order; extract_values makes one CopyFeatures call and a single
   ExtractMultiValuesToPoints call that is handed all the listed rasters in
   listing order. *)
C5_CallsPerFile ==
    (InToolbox /\ pc = "returned") =>
        /\ fn = "apply_resampling" =>
              /\ Len(CallsOf("Resample")) = Len(args.rasters)
              /\ \A k \in 1..Len(args.rasters) :
                    CallsOf("Resample")[k].in_raster = args.rasters[k]
        /\ fn = "apply_focal_statistics" =>
              LET n == Len(args.rasters)
                  m == Len(args.radius)
              IN  /\ Len(calls) = 1 + 2 * n * m
                  /\ \A k \in 1..n : \A l \in 1..m :
                        LET at == 1 + 2 * ((k - 1) * m + l)
                        IN  /\ calls[at - 1].op = "FocalStatistics"
                            /\ calls[at - 1].in_raster = args.rasters[k]
                            /\ calls[at - 1].rad = args.radius[l]
                            /\ calls[at].op = "save"
                            /\ calls[at].in_raster = args.rasters[k]
                            /\ calls[at].rad = args.radius[l]
        /\ fn = "extract_values" =>
              /\ Len(CallsOf("CopyFeatures")) = 1
              /\ Len(CallsOf("ExtractMultiValuesToPoints")) = 1
              /\ LET list == CallsOf("ExtractMultiValuesToPoints")[1].in_rasters
                 IN  /\ Len(list) = Len(args.rasters)
                     /\ \A k \in 1..Len(list) : list[k][1] = args.rasters[k]

C5_Witness ==
    /\ InToolbox /\ pc = "returned"
    /\ fn = "apply_focal_statistics"
    /\ Len(args.rasters) = 2
    /\ Len(args.radius) = 2
    /\ Len(CallsOf("FocalStatistics")) = 4

(* C6: the list handed to ExtractMultiValuesToPoints holds one pair per listed
   raster, its field name the last '_'-token of the name before the first '.',
   '_', the token at index 1 and '0m', and two rasters never get the same
   field name. *)
C6_OneColumnPerRaster ==
    InToolbox =>
        \A c \in Range(CallsOf("ExtractMultiValuesToPoints")) :
            LET list == c.in_rasters
            IN  /\ Len(list) = Len(args.rasters)
                /\ \A k \in 1..Len(list) :
                      LET name == SplitOn(args.rasters[k], ".")[1]
                          toks == SplitOn(name, "_")
                      IN  list[k] = <<args.rasters[k],
                                      toks[Len(toks)] \o <<"_">> \o toks[2] \o <<"0m">>>>
                /\ \A k, l \in 1..Len(list) : k # l => list[k][2] # list[l][2]

(* C7: an output path depends on nothing but the raster name, the output
   folder and the parameter: a path computed now equals the path an earlier
   call computed from the same inputs, and it is <folder>/resampled_<stem>.tif,
   <folder>/focal_<rad>_<stem>.tif or <folder>/<output_file>. *)
C7_DeterministicPaths ==
    InToolbox =>
        \A k \in 1..Len(calls) :
            HasPath(calls[k]) =>
                LET c == calls[k]
                    dir == args.output_folder \o <<"/">>
                IN  /\ (seen # NoSeen /\ seen.key = PathKey(c)) => seen.out = c.out
                    /\ c.op = "Resample" =>
                          c.out = dir \o <<"resampled", "_">> \o Stem(c.in_raster)
                                      \o <<".", "tif">>
                    /\ c.op = "save" =>
                          c.out = dir \o <<"focal", "_">> \o Str(c.rad) \o <<"_">>
                                      \o Stem(c.in_raster) \o <<".", "tif">>
                    /\ c.op = "CopyFeatures" => c.out = dir \o args.output_file

C7_Witness ==
    /\ InToolbox /\ pc = "running" /\ seen # NoSeen
    /\ fn \in {"apply_resampling", "apply_focal_statistics"}
    /\ Len(args.rasters) = 2
    /\ \E k \in 1..Len(calls) :
          /\ HasPath(calls[k])
          /\ seen.key = PathKey(calls[k])
          /\ calls[k].op \in {"Resample", "save"}
          /\ calls[k].in_raster = args.rasters[2]

(* C8: the feature class handed to CreateFishnet is the output folder joined
   with the value of output_name. *)
C8_FishnetUsesOutputName ==
    InToolbox =>
        \A c \in Range(CallsOf("CreateFishnet")) :
            c.out = PathJoin(args.output_folder, args.output_name)

(* C9: every Resample call gets the resampling_type argument as its
   resampling technique and the cellsize argument as its cell size. *)
C9_ResamplingTypePassed ==
    InToolbox =>
        \A c \in Range(CallsOf("Resample")) :
            /\ c.resampling_type = args.resampling_type
            /\ c.cell_size = args.cellsize

(* C10: rename_rasters never loses a file: the folder holds as many files
   after every iteration as the listing had, and they are the files it had. *)
C10_NoFileLost ==
    InRename =>
        /\ Cardinality(files) = Len(args.listing)
        /\ {f[2] : f \in files} = Range(args.listing)

====
